---- MODULE Spec2Model ----
(***************************************************************************)
(* WhisperVault web client: token store, API gateway client (fetchApi,     *)
(* authApi, confessionsApi), the API-backed Auth Context (AuthProvider),   *)
(* the route guards built on it, and the client paths that enqueue a       *)
(* social publish job.                                                     *)
(*                                                                         *)
(* Every awaited network call is split in two steps: the step that issues  *)
(* the request and the step that runs the continuation with the response.  *)
(* Responses are inputs chosen by the environment.                         *)
(***************************************************************************)
EXTENDS Integers, Sequences, FiniteSets, TLC

\* ------------------------------------------------------------------ bounds
MaxCalls == 2          \* context / gateway operations started in one run
MaxRequests == 2       \* requests the forms and the confession list start in one run
MaxOps == 3            \* tokenManager calls made directly in one run
MaxStubCalls == 2      \* calls of the storage-only provider in one run
MaxHops == 2           \* requests the middleware answers in one browser session

\* --------------------------------------------------------------- constants
null == "null"                      \* JavaScript null / undefined
NoWindow == "no-window"             \* typeof window === 'undefined': no localStorage
Tokens == {"tokA", "tokB"}          \* access tokens the server may issue
Users == {"admin", "member"}        \* user records returned by /users/me
is_superuser(u) == u = "admin"      \* user?.is_superuser

\* Strings whose characters the code inspects are sequences of characters.
Code401 == <<"4", "0", "1">>
Code403 == <<"4", "0", "3">>
MsgSomethingWentWrong ==
    <<"S","o","m","e","t","h","i","n","g"," ","w","e","n","t"," ","w","r","o","n","g">>
MsgLoginFailed == <<"L","o","g","i","n"," ","f","a","i","l","e","d">>
MsgFailedToFetch == <<"F","a","i","l","e","d"," ","t","o"," ","f","e","t","c","h">>
MsgSyntaxError == <<"U","n","e","x","p","e","c","t","e","d"," ","t","o","k","e","n">>
DetailNotAuthenticated ==
    <<"N","o","t"," ","a","u","t","h","e","n","t","i","c","a","t","e","d">>
DetailWithCode == Code401 \o <<":"," ","d","e","n","i","e","d">>
NoDetail == << >>                   \* detail absent (or the empty string)
Details == {NoDetail, DetailNotAuthenticated, DetailWithCode}

\* String.prototype.includes
Includes(s, sub) ==
    \E i \in 1..(Len(s) - Len(sub) + 1) : SubSeq(s, i, i + Len(sub) - 1) = sub

\* a || b on strings
OrElse(a, b) == IF a = << >> THEN b ELSE a

\* ------------------------------------------------------ server responses
EmptyBody == "empty"                \* zero-length body
Garbage == "garbage"                \* body that is not JSON
ErrStatuses == {401, 403, 500}
NetFail == [kind |-> "netfail", status |-> 0, detail |-> NoDetail, body |-> EmptyBody]
Responses(bodies) ==
    {NetFail}
    \cup [kind : {"http"}, status : ErrStatuses, detail : Details, body : {EmptyBody}]
    \cup [kind : {"http"}, status : {200}, detail : {NoDetail}, body : bodies]
ResponseOk(resp) == resp.status >= 200 /\ resp.status <= 299
NoResp == [kind |-> "none", status |-> 0, detail |-> NoDetail, body |-> EmptyBody]

VARIABLES
    token,        \* localStorage[auth_token]
    state,        \* AuthProvider state {user, isAuthenticated, isLoading}
    loadPC,       \* loadUser: "init", "pending", "done"
    signInPC,     \* AuthProvider.signIn: "idle", "token", "me"
    signUpPC,     \* AuthProvider.signUp: "idle", "pending"
    signOutPC,    \* AuthProvider.signOut: "idle", "pending"
    apiPC,        \* a confessionsApi call: "idle" or the endpoint awaited
    reqAuth,      \* Authorization header of the request each operation awaits
    tokenResp,    \* response to the /auth/token request of the signIn in flight
    settled,      \* the promise the last step settled: operation, response, outcome
    calls,        \* operations started so far
    route,        \* page currently mounted
    pendingNav,   \* target of a router.push whose navigation has not completed
    navEvents,    \* router.push calls made by the last step, in order
    dashLoading,  \* AdminDashboard `loading` state
    dashInFlight, \* loadDashboardData calls awaiting their fetches
    widget,       \* component mounted besides the pages: SubmitForm, ...
    form,         \* SubmitForm formData and socialMediaSettings
    formUI,       \* SubmitForm isSubmitting, error, successData
    submit,       \* the SubmitForm.handleSubmit call in flight
    legacy,       \* the earlier SubmitForm (fetch-based): fields, result, publish state
    list,         \* MyConfessions state
    listPending,  \* pages whose loadConfessions call awaits its response
    shareInFlight,\* handleSocialShare calls awaiting their response
    sent,         \* the publish / image request issued by the last step
    requests,     \* requests the forms and the list have started so far
    ops,          \* tokenManager calls made directly, in order, with what they returned
    probe,        \* the last fetchApi step run directly: request built, or response mapped
    deploy,       \* a run of deploy.sh: arguments, environment, functions completed, exit
    stub,         \* the storage-only AuthProvider: localStorage[auth:user], user, calls made
    mw            \* requests the middleware has answered in one browser session

authVars == <<token, state, loadPC, signInPC, signUpPC, signOutPC, apiPC,
              reqAuth, tokenResp, calls>>
pageVars == <<route, pendingNav, navEvents, dashLoading, dashInFlight>>
widgetState == <<widget, form, formUI, submit, legacy, list, listPending,
                 shareInFlight, requests>>
clientVars == <<ops, probe>>
sideVars == <<deploy, stub, mw>>
vars == <<authVars, settled, pageVars, widgetState, sent, clientVars, sideVars>>

\* ------------------------------------------------------------ tokenManager
\* `store` is localStorage[auth_token] (null when the key is unset), or NoWindow
\* where there is no window object. A ReferenceError is the value "ReferenceError".
getTokenUnguarded(store) == IF store = NoWindow THEN "ReferenceError" ELSE store
getToken(store) == IF store # NoWindow THEN store ELSE null
setTokenKeepFirst(store, t) ==
    IF store # NoWindow THEN (IF store = null THEN t ELSE store) ELSE store
setToken(store, t) == IF store # NoWindow THEN t ELSE store
removeTokenBlank(store) == IF store # NoWindow THEN "" ELSE store
removeToken(store) == IF store # NoWindow THEN null ELSE store

\* ----------------------------------------------------------------- fetchApi
Resolved(d) == [ok |-> TRUE, data |-> d, message |-> << >>]
Rejected(m) == [ok |-> FALSE, data |-> null, message |-> m]

\* an object literal with spread: the keys of `later` win
Merge(earlier, later) ==
    [k \in DOMAIN earlier \cup DOMAIN later |->
        IF k \in DOMAIN later THEN later[k] ELSE earlier[k]]
NoHeaders == [k \in {} |-> << >>]
Header(name, value) == [k \in {name} |-> value]
ContentTypeJson == <<"application/json">>

\* the headers object fetchApi passes to fetch, from the token stored when it is
\* called and options.headers
BuildHeadersAlways(store, callerHeaders) ==
    Merge(Merge(Header("Content-Type", ContentTypeJson), callerHeaders),
          Header("Authorization", <<"Bearer", getToken(store)>>))
BuildHeaders(store, callerHeaders) ==
    LET headers == Merge(Header("Content-Type", ContentTypeJson), callerHeaders) IN
    IF getToken(store) # null
      THEN Merge(headers, Header("Authorization", <<"Bearer", getToken(store)>>))
      ELSE headers

\* the Authorization header fetchApi builds from the token stored when it is called
RequestHeaders(store) ==
    IF getToken(store) # null THEN <<"Bearer", getToken(store)>> ELSE << >>

\* what the promise returned by fetchApi settles to for a response
fetchApiNoFallback(resp) ==
    IF resp.kind = "netfail" THEN Rejected(MsgFailedToFetch)
    ELSE IF ~ResponseOk(resp) THEN Rejected(resp.detail)
    ELSE IF resp.body = EmptyBody THEN Resolved(null)
    ELSE IF resp.body = Garbage THEN Rejected(MsgSyntaxError)
    ELSE Resolved(resp.body)
fetchApi(resp) ==
    IF resp.kind = "netfail" THEN Rejected(MsgFailedToFetch)
    ELSE IF ~ResponseOk(resp) THEN Rejected(OrElse(resp.detail, MsgSomethingWentWrong))
    ELSE IF resp.body = EmptyBody THEN Resolved(null)
    ELSE IF resp.body = Garbage THEN Rejected(MsgSyntaxError)
    ELSE Resolved(resp.body)

\* ------------------------------------------------------------------ authApi
\* the direct fetch of /auth/token in authApi.signIn
signInTokenGeneric(resp) ==
    IF resp.kind = "netfail" THEN Rejected(MsgFailedToFetch)
    ELSE IF ~ResponseOk(resp) THEN Rejected(MsgLoginFailed)
    ELSE IF resp.body \in {EmptyBody, Garbage} THEN Rejected(MsgSyntaxError)
    ELSE Resolved(resp.body)
signInToken(resp) ==
    IF resp.kind = "netfail" THEN Rejected(MsgFailedToFetch)
    ELSE IF ~ResponseOk(resp) THEN Rejected(OrElse(resp.detail, MsgLoginFailed))
    ELSE IF resp.body \in {EmptyBody, Garbage} THEN Rejected(MsgSyntaxError)
    ELSE Resolved(resp.body)

\* authApi.getCurrentUser: the user it returns and whether it removes the token
getCurrentUser(resp) ==
    LET r == fetchApi(resp) IN
    IF r.ok THEN [user |-> r.data, evict |-> FALSE]
    ELSE [user |-> null,
          evict |-> Includes(r.message, Code401) \/ Includes(r.message, Code403)]

\* authApi.signOut: the token store after it returns, and how its promise settles
signOutStoreNoFinally(store, resp) ==
    IF fetchApi(resp).ok THEN removeToken(store) ELSE store
signOutStore(store, resp) == removeToken(store)
signOutResultNoCatch(resp) ==
    IF fetchApi(resp).ok THEN Resolved(null) ELSE fetchApi(resp)
signOutResult(resp) == Resolved(null)

\* ------------------------------------------------------------ AuthProvider
updateAuthState(prev, updates) ==
    [f \in {"user", "isAuthenticated", "isLoading"} |->
        IF f \in DOMAIN updates THEN updates[f] ELSE prev[f]]

Truthy(v) == v # null

\* ------------------------------------------------------------- route guards
Routes == {"/", "/auth/sign-in", "/guarded", "/admin", "/jobs", "/submit"}
Push(by, to) == [by |-> by, to |-> to]

\* router.push calls made by the effects of the page mounted at r, run after a
\* render in which the auth state went from old to new (or at mount)
GuardEffectPushes(r, old, new, mounting) ==
    IF /\ r = "/guarded"
       /\ mounting \/ old.isAuthenticated # new.isAuthenticated
       /\ ~new.isAuthenticated
      THEN << Push("useRequireAuth", "/auth/sign-in") >>
    ELSE IF /\ r = "/admin"
            /\ mounting \/ old.user # new.user
            /\ ~is_superuser(new.user)
      THEN << Push("AdminDashboard", "/") >>
    ELSE << >>

\* AdminDashboard's second effect calls loadDashboardData
DashboardEffect(r, old, new, mounting) ==
    /\ r = "/admin"
    /\ mounting \/ old.user # new.user
    /\ is_superuser(new.user)

\* --- what a guarded page renders
JobsPage(st) ==
    IF st.isLoading THEN "placeholder"
    ELSE IF ~st.isAuthenticated \/ ~Truthy(st.user) THEN "denied"
    ELSE IF ~is_superuser(st.user) THEN "denied"
    ELSE "content"

SubmitPage(st) ==
    IF st.isLoading THEN "placeholder"
    ELSE IF ~st.isAuthenticated \/ ~Truthy(st.user) THEN "denied"
    ELSE "content"

AdminDashboard(st, loading) ==
    IF ~is_superuser(st.user) THEN "denied"
    ELSE IF loading THEN "placeholder"
    ELSE "content"

GuardedRoutes == {"/admin", "/jobs", "/submit"}
View(r, st, loading) ==
    CASE r = "/jobs" -> JobsPage(st)
      [] r = "/submit" -> SubmitPage(st)
      [] r = "/admin" -> AdminDashboard(st, loading)
      [] OTHER -> "content"

\* setState followed by the handler's own router.push calls, the re-render and
\* the effects of the mounted page
Commit(newState, pushes) ==
    LET ev == pushes \o GuardEffectPushes(route, state, newState, FALSE) IN
    /\ state' = newState
    /\ navEvents' = ev
    /\ pendingNav' = IF ev = << >> THEN pendingNav ELSE ev[Len(ev)].to
    /\ route' = route
    /\ IF DashboardEffect(route, state, newState, FALSE)
         THEN dashLoading' = TRUE /\ dashInFlight' = dashInFlight + 1
         ELSE UNCHANGED <<dashLoading, dashInFlight>>

\* a context or gateway promise settling: which operation, the request it awaited,
\* the Authorization header that request carried, the response, the outcome, and
\* the token that was stored when the response arrived
Settled(op, endpoint, auth, resp, r) ==
    [op |-> op, endpoint |-> endpoint, auth |-> auth, resp |-> resp,
     ok |-> r.ok, message |-> r.message, tokenBefore |-> token]
NoneSettled == Settled("none", "none", << >>, NoResp, Resolved(null))

\* ------------------------------------------------- confessions: shared parts
Statuses == {"draft", "pending_moderation", "approved", "blocked", "published"}
Platforms == {"facebook", "instagram"}

\* a request a component issues: who issued it, the endpoint, and the status the
\* client knows for the confession it is about (null when it is about none)
Request(via, endpoint, status) == [via |-> via, endpoint |-> endpoint, status |-> status]
NoRequest == Request("none", "none", null)
WidgetsIdle == sent' = NoRequest /\ UNCHANGED widgetState /\ UNCHANGED <<clientVars, sideVars>>

\* an error shown by a component: a literal text of the component, the response
\* status it interpolates (0: none), or the message of a caught error
ErrText(text) == [text |-> text, status |-> 0, message |-> << >>]
ErrStatus(text, status) == [text |-> text, status |-> status, message |-> << >>]
ErrMessage(message, fallback) ==
    IF message = << >> THEN ErrText(fallback)
    ELSE [text |-> "", status |-> 0, message |-> message]
NoError == ErrText("")

\* String.prototype.trim
RECURSIVE TrimLeft(_), TrimRight(_)
TrimLeft(s) == IF s # << >> /\ Head(s) = " " THEN TrimLeft(Tail(s)) ELSE s
TrimRight(s) ==
    IF s # << >> /\ s[Len(s)] = " " THEN TrimRight(SubSeq(s, 1, Len(s) - 1)) ELSE s
trim(s) == TrimRight(TrimLeft(s))

\* parseInt on a string of characters; NaN when it does not start with a digit
NaN == -1
DigitValue == ("0" :> 0) @@ ("1" :> 1) @@ ("2" :> 2) @@ ("3" :> 3) @@ ("4" :> 4) @@
              ("5" :> 5) @@ ("6" :> 6) @@ ("7" :> 7) @@ ("8" :> 8) @@ ("9" :> 9)
RECURSIVE ParseDigits(_, _)
ParseDigits(s, acc) ==
    IF s = << >> \/ Head(s) \notin DOMAIN DigitValue THEN acc
    ELSE ParseDigits(Tail(s), 10 * acc + DigitValue[Head(s)])
parseInt(s) ==
    IF s = << >> \/ Head(s) \notin DOMAIN DigitValue THEN NaN ELSE ParseDigits(s, 0)

\* ------------------------------------------------ SubmitForm (confessionsApi)
Contents == {<< >>, <<" ">>, <<"h", "i", " ">>}
Genders == {"", "female"}
AgeInputs == {<< >>, <<"1", "2">>, <<"2", "1">>}

InitForm == [content |-> << >>, gender |-> "", age |-> << >>,
             shareToSocial |-> FALSE, platforms |-> {}]
NoSuccess == [present |-> FALSE, confession |-> null, socialMedia |-> null]
Success(confession, socialMedia) ==
    [present |-> TRUE, confession |-> confession, socialMedia |-> socialMedia]
InitFormUI == [isSubmitting |-> FALSE, error |-> NoError, successData |-> NoSuccess,
               redirectTimer |-> FALSE]
IdleSubmit == [pc |-> "idle", share |-> FALSE, platforms |-> {}, confession |-> null,
               staleSuccess |-> FALSE]

\* the validation at the head of handleSubmit: the error it sets, "" when it passes
validateNoTrim(f) ==
    IF f.content = << >> THEN "Please enter your confession"
    ELSE IF f.gender = "" THEN "Please select your gender"
    ELSE IF \/ f.age = << >>
            \/ parseInt(f.age) # NaN /\ (parseInt(f.age) < 13 \/ parseInt(f.age) > 120)
      THEN "Please enter a valid age (13-120)"
    ELSE ""
validate(f) ==
    IF trim(f.content) = << >> THEN "Please enter your confession"
    ELSE IF f.gender = "" THEN "Please select your gender"
    ELSE IF \/ f.age = << >>
            \/ parseInt(f.age) # NaN /\ (parseInt(f.age) < 13 \/ parseInt(f.age) > 120)
      THEN "Please enter a valid age (13-120)"
    ELSE ""

\* whether handleSubmit goes on to request social posting for the created confession
sharesOnSubmit(sub, confession) ==
    sub.share /\ sub.platforms # {} /\ confession # null

\* ------------------------------------------------ SubmitForm (fetch, earlier)
InitLegacy == [user |-> FALSE, content |-> << >>, loading |-> FALSE, result |-> null,
               error |-> NoError, publishLoading |-> FALSE, publishJob |-> FALSE]

\* the publish buttons are rendered and enabled
publishEnabled(l) ==
    l.result # null /\ l.user /\ ~l.publishLoading /\ l.result = "approved"

\* --------------------------------------------------------------- MyConfessions
Envelope(total, page, per_page, pages, has_next, has_prev, items) ==
    [present |-> TRUE, total |-> total, page |-> page, per_page |-> per_page,
     pages |-> pages, has_next |-> has_next, has_prev |-> has_prev, items |-> items]
NoPage == [present |-> FALSE, total |-> 0, page |-> 0, per_page |-> 0, pages |-> 0,
           has_next |-> FALSE, has_prev |-> FALSE, items |-> << >>]
Item(id, status) == [id |-> id, status |-> status]
\* the page bodies the server may send, by name, and the envelope each parses to
Envelopes == {"no-items", "page-1-of-2", "page-2-of-2", "page-2-of-3"}
ParseEnvelope(body) ==
    CASE body = "no-items" -> Envelope(0, 1, 5, 1, FALSE, FALSE, << >>)
      [] body = "page-1-of-2" ->
            Envelope(7, 1, 5, 2, TRUE, FALSE,
                     << Item(1, "approved"), Item(2, "pending_moderation"),
                        Item(3, "draft"), Item(4, "blocked"), Item(5, "published") >>)
      [] body = "page-2-of-2" ->
            Envelope(7, 2, 5, 2, FALSE, TRUE, << Item(6, "blocked"), Item(7, "approved") >>)
      [] body = "page-2-of-3" ->
            Envelope(12, 2, 5, 3, TRUE, TRUE,
                     << Item(6, "approved"), Item(7, "approved"), Item(8, "draft"),
                        Item(9, "published"), Item(10, "pending_moderation") >>)
      [] OTHER -> NoPage
\* `requested` is history, not component state: the page passed to the latest
\* loadConfessions call (0: none yet)
InitList == [confessions |-> NoPage, loading |-> TRUE, error |-> NoError,
             currentPage |-> 1, showSocialOptions |-> 0, requested |-> 0]

\* which of its five returns MyConfessions renders
ListView(st, l) ==
    IF ~st.isAuthenticated \/ ~Truthy(st.user) THEN "sign-in"
    ELSE IF l.loading THEN "spinner"
    ELSE IF l.error # NoError THEN "error"
    ELSE IF ~l.confessions.present \/ l.confessions.items = << >> THEN "empty"
    ELSE "list"

\* the share controls of item i are rendered
shareRendered(st, l, i) ==
    /\ ListView(st, l) = "list"
    /\ i \in 1..Len(l.confessions.items)
    /\ l.confessions.items[i].status = "approved"

\* "Showing <from> to <to> of <total> confessions"
ShownRangeFullPages(c) == << ((c.page - 1) * c.per_page) + 1, c.page * c.per_page >>
ShownRange(c) ==
    << ((c.page - 1) * c.per_page) + 1,
       IF c.page * c.per_page < c.total THEN c.page * c.per_page ELSE c.total >>

\* the Previous and Next buttons are not disabled
PreviousEnabled(c) == c.has_prev
NextEnabled(c) == c.has_next

\* the numbered page buttons rendered under the list
PageButtons(c) ==
    IF c.pages > 1
      THEN { n \in { (IF c.page - 2 > 1 THEN c.page - 2 ELSE 1) + i :
                       i \in 0..((IF c.pages < 5 THEN c.pages ELSE 5) - 1) } :
             n <= c.pages }
      ELSE {}

\* loadConfessions(page) up to its await
loadConfessions(page) ==
    /\ list' = [list EXCEPT !.loading = TRUE, !.error = NoError, !.requested = page]
    /\ listPending' = listPending \cup {page}
    /\ sent' = Request("MyConfessions", "GET /confessions/my-confessions", null)

\* the dependencies [isAuthenticated, user] of MyConfessions' effect differ between
\* two renders; `renewed`: the user object was replaced by a newly parsed one
ListDepsChanged(old, new, renewed) ==
    \/ old.isAuthenticated # new.isAuthenticated
    \/ old.user # new.user
    \/ renewed /\ Truthy(new.user)

\* what an Auth Context state change does to the components: HomePage unmounts
\* MyConfessions while isLoading or not authenticated (responses to the requests
\* of an unmounted instance change nothing); otherwise MyConfessions' effect runs
\* again when its dependencies changed
WidgetsFollow(new, renewed) ==
    IF widget # "MyConfessions"
      THEN sent' = NoRequest /\ UNCHANGED widgetState /\ UNCHANGED <<clientVars, sideVars>>
    ELSE IF new.isLoading \/ ~new.isAuthenticated
      THEN /\ widget' = "none"
           /\ list' = InitList
           /\ listPending' = {}
           /\ shareInFlight' = 0
           /\ sent' = NoRequest
           /\ UNCHANGED <<form, formUI, submit, legacy, requests>>
           /\ UNCHANGED <<clientVars, sideVars>>
    ELSE IF ListDepsChanged(state, new, renewed)
      THEN /\ IF Truthy(new.user)
                THEN loadConfessions(1)
                ELSE /\ list' = [list EXCEPT !.loading = FALSE]
                     /\ sent' = NoRequest
                     /\ UNCHANGED listPending
           /\ UNCHANGED <<widget, form, formUI, submit, legacy, shareInFlight, requests>>
           /\ UNCHANGED <<clientVars, sideVars>>
    ELSE sent' = NoRequest /\ UNCHANGED widgetState /\ UNCHANGED <<clientVars, sideVars>>

\* ------------------------------------------------------------- deploy.sh
DeployTools == {"aws", "terraform", "docker"}
CredentialVars == {"AWS_ACCESS_KEY_ID", "AWS_SECRET_ACCESS_KEY"}

\* the usage block ahead of main "$@": --help and -h print the usage and exit 0
ShowsUsage(mode) == mode = "--help" \/ mode = "-h"

\* a mutation of Plan: the full deployment pushes the images ahead of the infrastructure
PlanImagesFirst(mode) ==
    <<"check_requirements", "setup_aws_credentials">> \o
    (IF mode = "--infrastructure-only"
       THEN <<"setup_terraform_backend", "deploy_infrastructure">>
     ELSE IF mode = "--images-only"
       THEN <<"build_and_push_images", "update_ecs_services">>
     ELSE <<"setup_terraform_backend", "build_and_push_images",
            "deploy_infrastructure", "update_ecs_services">>)

\* main: the functions it calls for $1, in order
Plan(mode) ==
    <<"check_requirements", "setup_aws_credentials">> \o
    (IF mode = "--infrastructure-only"
       THEN <<"setup_terraform_backend", "deploy_infrastructure">>
     ELSE IF mode = "--images-only"
       THEN <<"build_and_push_images", "update_ecs_services">>
     ELSE <<"setup_terraform_backend", "deploy_infrastructure",
            "build_and_push_images", "update_ecs_services">>)

\* whether a function of the script returns; under set -e a failing command ends
\* the script, and the functions exit 1 themselves on a missing tool, a missing
\* credential variable or a reply other than y / Y
StepReturns(step, tools, keys, reply, commandsOk) ==
    IF step = "check_requirements" THEN tools = DeployTools
    ELSE IF step = "setup_aws_credentials" THEN keys = CredentialVars /\ commandsOk
    ELSE IF step = "deploy_infrastructure" THEN commandsOk /\ reply \in {"y", "Y"}
    ELSE commandsOk

\* ------------------------------------------- the storage-only AuthProvider
Emails == {"a@example.com", "b@example.com"}
NoStubUser == [email |-> "", role |-> ""]        \* user === null
NoItem == << >>                                  \* localStorage.getItem returns null
\* JSON.stringify of a user and JSON.parse of the text it produced
JSONstringify(u) == <<"{", "email", u.email, "role", u.role, "}">>
JSONparse(raw) == [email |-> raw[3], role |-> raw[5]]

\* a mutation of stubSignIn: the record is written again from the email supplied
stubSignInOverwrite(storage, email) ==
    LET u == [email |-> email, role |-> "user"]
    IN [storage |-> JSONstringify(u), user |-> u]

\* signIn: the storage and the user it leaves
stubSignIn(storage, email) ==
    IF storage # NoItem
      THEN [storage |-> storage, user |-> JSONparse(storage)]
      ELSE LET u == [email |-> email, role |-> "user"]
           IN [storage |-> JSONstringify(u), user |-> u]

InitStubWith(raw) ==
    [storage |-> raw, user |-> NoStubUser, mounted |-> FALSE, route |-> "/auth/sign-in",
     calls |-> << >>]

\* ----------------------------------------------------------------- middleware
PathDashboard == <<"/","d","a","s","h","b","o","a","r","d">>
PathProfile == <<"/","p","r","o","f","i","l","e">>
PathSignin == <<"/","a","u","t","h","/","s","i","g","n","i","n">>
PathSignup == <<"/","a","u","t","h","/","s","i","g","n","u","p">>
\* request paths: /, /submit, /dashboard, /dashboard/users, /dashboards, /profile,
\* /profile/edit, /auth/signin, /auth/signup, /auth/sign-in
Paths == {<<"/">>, <<"/","s","u","b","m","i","t">>, PathDashboard,
          <<"/","d","a","s","h","b","o","a","r","d","/","u","s","e","r","s">>,
          <<"/","d","a","s","h","b","o","a","r","d","s">>, PathProfile,
          <<"/","p","r","o","f","i","l","e","/","e","d","i","t">>, PathSignin, PathSignup,
          <<"/","a","u","t","h","/","s","i","g","n","-","i","n">>}

\* String.prototype.startsWith
StartsWith(s, prefix) ==
    Len(s) >= Len(prefix) /\ SubSeq(s, 1, Len(prefix)) = prefix

protectedRoutes == {PathDashboard, PathProfile}
authRoutes == {PathSignin, PathSignup}

PassThrough == [kind |-> "next", location |-> << >>, from |-> << >>]
Redirect(location, from) == [kind |-> "redirect", location |-> location, from |-> from]

\* the function middleware(request)
middleware(pathname, cookie) ==
    LET isProtectedRoute == \E r \in protectedRoutes : StartsWith(pathname, r)
        isAuthRoute == pathname \in authRoutes
    IN IF isProtectedRoute /\ ~Truthy(cookie) THEN Redirect(PathSignin, pathname)
       ELSE IF isAuthRoute /\ Truthy(cookie) THEN Redirect(PathDashboard, << >>)
       ELSE PassThrough

\* config.matcher: '/dashboard/:path*' and '/auth/:path*' (zero or more segments)
Matches(pathname) ==
    \E b \in {PathDashboard, <<"/","a","u","t","h">>} :
       pathname = b \/ StartsWith(pathname, b \o <<"/">>)

\* what a request gets: the middleware runs only on the paths its matcher selects
Respond(pathname, cookie) ==
    IF Matches(pathname) THEN middleware(pathname, cookie) ELSE PassThrough

Exchange(via, pathname, cookie) ==
    [via |-> via, path |-> pathname, cookie |-> cookie, response |-> Respond(pathname, cookie)]

\* a direct call of a tokenManager function: the store it found, its argument,
\* what it returned and the store it left
Op(op, arg, before, result, after) ==
    [op |-> op, arg |-> arg, before |-> before, result |-> result, after |-> after]
\* a fetchApi step: the store and options.headers it was called with and the
\* headers it built, or the response it received and what its promise settled to
Probe(step, store, caller, headers, resp, r) ==
    [step |-> step, store |-> store, caller |-> caller, headers |-> headers,
     resp |-> resp, ok |-> r.ok, data |-> r.data, message |-> r.message]
NoProbe == Probe("none", null, NoHeaders, NoHeaders, NoResp, Resolved(null))

InitRest ==
    /\ state = [user |-> null, isAuthenticated |-> FALSE, isLoading |-> TRUE]
    /\ loadPC = "init"
    /\ signInPC = "idle"
    /\ signUpPC = "idle"
    /\ signOutPC = "idle"
    /\ apiPC = "idle"
    /\ reqAuth = [o \in {"loadUser", "signIn", "api"} |-> << >>]
    /\ tokenResp = NoResp
    /\ settled = NoneSettled
    /\ calls = 0
    /\ route = "/"
    /\ pendingNav = null
    /\ navEvents = << >>
    /\ dashLoading = TRUE
    /\ dashInFlight = 0
    /\ widget = "none"
    /\ form = InitForm
    /\ formUI = InitFormUI
    /\ submit = IdleSubmit
    /\ legacy = InitLegacy
    /\ list = InitList
    /\ listPending = {}
    /\ shareInFlight = 0
    /\ sent = NoRequest
    /\ requests = 0
    /\ ops = << >>
    /\ probe = NoProbe
    /\ deploy = [mode |-> "", tools |-> {}, keys |-> {}, done |-> << >>, status |-> "idle"]
    /\ mw = << >>

\* in the browser: localStorage holds a token from an earlier visit, or none
Init ==
    /\ token \in Tokens \cup {null}
    /\ stub = InitStubWith(NoItem)
    /\ InitRest

\* the module loaded in the browser or, during server-side rendering, without window
InitClient ==
    /\ token \in Tokens \cup {null, NoWindow}
    /\ stub = InitStubWith(NoItem)
    /\ InitRest

\* the storage-only provider: auth:user holds the record an earlier visit wrote, or none
InitStub ==
    /\ token = null
    /\ stub \in {InitStubWith(NoItem)}
          \cup {InitStubWith(JSONstringify([email |-> e, role |-> r])) :
                   e \in Emails, r \in {"user", "admin"}}
    /\ InitRest

\* --- useEffect(() => { loadUser() }, [])
Mount ==
    /\ loadPC = "init"
    /\ loadPC' = "pending"
    /\ reqAuth' = [reqAuth EXCEPT !.loadUser = RequestHeaders(token)]
    /\ navEvents' = << >>
    /\ settled' = NoneSettled
    /\ UNCHANGED <<token, state, signInPC, signUpPC, signOutPC, apiPC, tokenResp,
                   calls, route, pendingNav, dashLoading, dashInFlight>>
    /\ WidgetsIdle

LoadSettle(resp) ==
    /\ loadPC = "pending"
    /\ LET g == getCurrentUser(resp) IN
       /\ token' = IF g.evict THEN removeToken(token) ELSE token
       /\ Commit(updateAuthState(state, [user |-> g.user,
                                         isAuthenticated |-> Truthy(g.user),
                                         isLoading |-> FALSE]), << >>)
       /\ settled' = Settled("loadUser", "/users/me", reqAuth.loadUser, resp,
                              Resolved(g.user))
    /\ loadPC' = "done"
    /\ UNCHANGED <<signInPC, signUpPC, signOutPC, apiPC, reqAuth, tokenResp, calls>>
    /\ WidgetsFollow(updateAuthState(state, [user |-> getCurrentUser(resp).user,
                                             isAuthenticated |-> Truthy(getCurrentUser(resp).user),
                                             isLoading |-> FALSE]), TRUE)

\* --- AuthProvider.signIn, up to the await of POST /auth/token
SignInStart ==
    /\ calls < MaxCalls
    /\ signInPC = "idle"
    /\ Commit(updateAuthState(state, [isLoading |-> TRUE]), << >>)
    /\ signInPC' = "token"
    /\ reqAuth' = [reqAuth EXCEPT !.signIn = << >>]
    /\ tokenResp' = NoResp
    /\ settled' = NoneSettled
    /\ calls' = calls + 1
    /\ UNCHANGED <<token, loadPC, signUpPC, signOutPC, apiPC>>
    /\ WidgetsFollow(updateAuthState(state, [isLoading |-> TRUE]), FALSE)

\* the state AuthProvider.signIn sets once authApi.signIn has returned `user`
signInSuccessState(prev, user) ==
    updateAuthState(prev, [user |-> user, isAuthenticated |-> TRUE, isLoading |-> FALSE])

\* the state AuthProvider.signIn sets in its catch block
signInFailureStateReset(prev) ==
    updateAuthState(prev, [user |-> null, isAuthenticated |-> FALSE, isLoading |-> FALSE])
signInFailureState(prev) == updateAuthState(prev, [isLoading |-> FALSE])

\* the token store when authApi.signIn calls fetchApi('/users/me')
signInStoreLate(store, access_token) == store
signInStore(store, access_token) == setToken(store, access_token)

\* whether authApi.signIn goes on to request /users/me
signInProceeds(r) == r.ok

\* --- the /auth/token response arrives
SignInTokenSettle(resp) ==
    /\ signInPC = "token"
    /\ LET r == signInToken(resp) IN
       IF signInProceeds(r)
         THEN /\ token' = IF r.ok THEN setToken(token, r.data) ELSE token
              /\ reqAuth' = [reqAuth EXCEPT
                    !.signIn = RequestHeaders(IF r.ok THEN signInStore(token, r.data)
                                                      ELSE token)]
              /\ tokenResp' = resp
              /\ signInPC' = "me"
              /\ navEvents' = << >>
              /\ settled' = NoneSettled
              /\ UNCHANGED <<state, route, pendingNav, dashLoading, dashInFlight>>
         ELSE /\ Commit(signInFailureState(state), << >>)
              /\ settled' = Settled("signIn", "/auth/token", << >>, resp, r)
              /\ signInPC' = "idle"
              /\ UNCHANGED <<token, reqAuth, tokenResp>>
    /\ UNCHANGED <<loadPC, signUpPC, signOutPC, apiPC, calls>>
    /\ WidgetsFollow(IF signInProceeds(signInToken(resp)) THEN state
                     ELSE signInFailureState(state), FALSE)

\* --- the /users/me response of authApi.signIn arrives
SignInMeSettle(resp) ==
    /\ signInPC = "me"
    /\ LET r == fetchApi(resp) IN
       /\ IF r.ok
            THEN Commit(signInSuccessState(state, r.data),
                        << Push("AuthProvider.signIn", "/") >>)
            ELSE Commit(signInFailureState(state), << >>)
       /\ settled' = Settled("signIn", "/users/me", reqAuth.signIn, resp,
                             IF r.ok THEN Resolved(null) ELSE r)
    /\ signInPC' = "idle"
    /\ tokenResp' = NoResp
    /\ reqAuth' = [reqAuth EXCEPT !.signIn = << >>]
    /\ UNCHANGED <<token, loadPC, signUpPC, signOutPC, apiPC, calls>>
    /\ WidgetsFollow(IF fetchApi(resp).ok THEN signInSuccessState(state, fetchApi(resp).data)
                     ELSE signInFailureState(state), fetchApi(resp).ok)

\* --- AuthProvider.signUp
SignUpStart ==
    /\ calls < MaxCalls
    /\ signUpPC = "idle"
    /\ Commit(updateAuthState(state, [isLoading |-> TRUE]), << >>)
    /\ signUpPC' = "pending"
    /\ settled' = NoneSettled
    /\ calls' = calls + 1
    /\ UNCHANGED <<token, loadPC, signInPC, signOutPC, apiPC, reqAuth, tokenResp>>
    /\ WidgetsFollow(updateAuthState(state, [isLoading |-> TRUE]), FALSE)

\* the state AuthProvider.signUp sets once authApi.signUp has settled, either way
signUpStateAutoAuth(prev) ==
    updateAuthState(prev, [isAuthenticated |-> TRUE, isLoading |-> FALSE])
signUpState(prev) == updateAuthState(prev, [isLoading |-> FALSE])

SignUpSettle(resp) ==
    /\ signUpPC = "pending"
    /\ LET r == fetchApi(resp) IN
       /\ Commit(signUpState(state),
                 IF r.ok THEN << Push("AuthProvider.signUp", "/auth/sign-in") >>
                         ELSE << >>)
       /\ settled' = Settled("signUp", "/auth/register", << >>, resp,
                             IF r.ok THEN Resolved(null) ELSE r)
    /\ signUpPC' = "idle"
    /\ UNCHANGED <<token, loadPC, signInPC, signOutPC, apiPC, reqAuth, tokenResp, calls>>
    /\ WidgetsFollow(signUpState(state), FALSE)

\* --- AuthProvider.signOut
SignOutStart ==
    /\ calls < MaxCalls
    /\ signOutPC = "idle"
    /\ Commit(updateAuthState(state, [isLoading |-> TRUE]), << >>)
    /\ signOutPC' = "pending"
    /\ settled' = NoneSettled
    /\ calls' = calls + 1
    /\ UNCHANGED <<token, loadPC, signInPC, signUpPC, apiPC, reqAuth, tokenResp>>
    /\ WidgetsFollow(updateAuthState(state, [isLoading |-> TRUE]), FALSE)

\* the state AuthProvider.signOut sets once authApi.signOut has returned
signOutState(prev) ==
    updateAuthState(prev, [user |-> null, isAuthenticated |-> FALSE, isLoading |-> FALSE])

SignOutSettle(resp) ==
    /\ signOutPC = "pending"
    /\ token' = signOutStore(token, resp)
    /\ LET r == signOutResult(resp) IN
       /\ IF r.ok
            THEN Commit(signOutState(state),
                        << Push("AuthProvider.signOut", "/auth/sign-in") >>)
            ELSE Commit(updateAuthState(state, [isLoading |-> FALSE]), << >>)
       /\ settled' = Settled("signOut", "/auth/logout", << >>, resp, r)
    /\ signOutPC' = "idle"
    /\ UNCHANGED <<loadPC, signInPC, signUpPC, apiPC, reqAuth, tokenResp, calls>>
    /\ WidgetsFollow(IF signOutResult(resp).ok THEN signOutState(state)
                     ELSE updateAuthState(state, [isLoading |-> FALSE]), FALSE)

\* --- confessionsApi.create / getMyConfessions / postToSocial / generateImage
Endpoints == {"POST /confessions", "GET /confessions/my-confessions",
              "POST /confessions/{id}/post-to-social",
              "POST /confessions/{id}/generate-image"}

ApiStart(ep) ==
    /\ calls < MaxCalls
    /\ apiPC = "idle"
    /\ apiPC' = ep
    /\ reqAuth' = [reqAuth EXCEPT !.api = RequestHeaders(token)]
    /\ calls' = calls + 1
    /\ navEvents' = << >>
    /\ settled' = NoneSettled
    /\ UNCHANGED <<token, state, loadPC, signInPC, signUpPC, signOutPC, tokenResp,
                   route, pendingNav, dashLoading, dashInFlight>>
    /\ WidgetsIdle

ApiSettle(resp) ==
    /\ apiPC # "idle"
    /\ settled' = Settled("confessionsApi", apiPC, reqAuth.api, resp, fetchApi(resp))
    /\ apiPC' = "idle"
    /\ reqAuth' = [reqAuth EXCEPT !.api = << >>]
    /\ navEvents' = << >>
    /\ UNCHANGED <<token, state, loadPC, signInPC, signUpPC, signOutPC, tokenResp,
                   calls, route, pendingNav, dashLoading, dashInFlight>>
    /\ WidgetsIdle

\* --- the user opens a page; its effects run at mount
NavigateTo(r) ==
    /\ pendingNav = null
    /\ r # route
    /\ route' = r
    /\ LET ev == GuardEffectPushes(r, state, state, TRUE) IN
       /\ navEvents' = ev
       /\ pendingNav' = IF ev = << >> THEN null ELSE ev[Len(ev)].to
    /\ dashLoading' = TRUE
    /\ dashInFlight' = IF DashboardEffect(r, state, state, TRUE) THEN 1 ELSE 0
    /\ settled' = NoneSettled
    /\ UNCHANGED authVars
    /\ WidgetsIdle

\* --- the navigation started by router.push completes
CompleteNavigation ==
    /\ pendingNav # null
    /\ route' = pendingNav
    /\ pendingNav' = null
    /\ navEvents' = << >>
    /\ dashLoading' = TRUE
    /\ dashInFlight' = 0
    /\ settled' = NoneSettled
    /\ UNCHANGED authVars
    /\ WidgetsIdle

\* --- loadDashboardData reaches its finally block
DashSettle ==
    /\ route = "/admin"
    /\ dashInFlight > 0
    /\ dashInFlight' = dashInFlight - 1
    /\ dashLoading' = FALSE
    /\ navEvents' = << >>
    /\ settled' = NoneSettled
    /\ UNCHANGED <<authVars, route, pendingNav>>
    /\ WidgetsIdle

\* --------------------------------------------------- component steps: frames
ContextIdle == settled' = NoneSettled /\ UNCHANGED authVars /\ UNCHANGED <<clientVars, sideVars>>
PagesIdle == navEvents' = << >> /\ UNCHANGED <<route, pendingNav, dashLoading, dashInFlight>>

\* --- the user brings a component on screen (the previous one unmounts); a
\* component with a request or timer outstanding is left on screen until it settles
OpenWidget(w, u) ==
    /\ w # widget
    /\ submit.pc = "idle" /\ ~formUI.redirectTimer
    /\ ~legacy.loading /\ ~legacy.publishLoading
    /\ listPending = {} /\ shareInFlight = 0
    /\ w = "MyConfessions" => ~state.isLoading /\ state.isAuthenticated
    /\ widget' = w
    /\ form' = InitForm
    /\ formUI' = InitFormUI
    /\ submit' = IdleSubmit
    /\ legacy' = [InitLegacy EXCEPT !.user = (w = "LegacySubmitForm" /\ u)]
    /\ IF w = "MyConfessions" /\ state.isAuthenticated /\ Truthy(state.user)
         THEN /\ list' = [InitList EXCEPT !.requested = 1]
              /\ listPending' = {1}
              /\ sent' = Request("MyConfessions", "GET /confessions/my-confessions", null)
         ELSE /\ list' = [InitList EXCEPT !.loading = (w # "MyConfessions")]
              /\ listPending' = {}
              /\ sent' = NoRequest
    /\ UNCHANGED <<shareInFlight, requests>>
    /\ ContextIdle /\ PagesIdle

\* ------------------------------------------------ SubmitForm (confessionsApi)
HandleInputChange ==
    /\ widget = "SubmitForm"
    /\ \/ \E c \in Contents : form' = [form EXCEPT !.content = c]
       \/ \E g \in Genders : form' = [form EXCEPT !.gender = g]
       \/ \E a \in AgeInputs : form' = [form EXCEPT !.age = a]
    /\ form' # form
    /\ sent' = NoRequest
    /\ UNCHANGED <<widget, formUI, submit, legacy, list, listPending, shareInFlight, requests>>
    /\ ContextIdle /\ PagesIdle

HandleSocialMediaChange ==
    /\ widget = "SubmitForm"
    /\ \/ form' = [form EXCEPT !.shareToSocial = ~form.shareToSocial]
       \/ /\ form.shareToSocial
          /\ \E pl \in Platforms :
               form' = [form EXCEPT !.platforms =
                          IF pl \in form.platforms THEN form.platforms \ {pl}
                                                   ELSE form.platforms \cup {pl}]
    /\ sent' = NoRequest
    /\ UNCHANGED <<widget, formUI, submit, legacy, list, listPending, shareInFlight, requests>>
    /\ ContextIdle /\ PagesIdle

\* handleSubmit up to its first await
HandleSubmit ==
    /\ widget = "SubmitForm"
    /\ submit.pc = "idle"
    /\ ~formUI.isSubmitting /\ ~formUI.successData.present
    /\ IF validate(form) # ""
         THEN /\ formUI' = [formUI EXCEPT !.error = ErrText(validate(form))]
              /\ sent' = NoRequest
              /\ UNCHANGED <<submit, requests>>
         ELSE /\ requests < MaxRequests
              /\ formUI' = [formUI EXCEPT !.isSubmitting = TRUE, !.error = NoError]
              /\ submit' = [pc |-> "creating", share |-> form.shareToSocial,
                            platforms |-> form.platforms, confession |-> null,
                            staleSuccess |-> formUI.successData.present]
              /\ sent' = Request("SubmitForm", "POST /confessions", null)
              /\ requests' = requests + 1
    /\ UNCHANGED <<widget, form, legacy, list, listPending, shareInFlight>>
    /\ ContextIdle /\ PagesIdle

\* the tail of handleSubmit: `if (!successData)`, the redirect timer, finally
submitFinished(ui, sub, confession, successSoFar) ==
    [ui EXCEPT !.successData = IF ~sub.staleSuccess THEN Success(confession, null)
                                                    ELSE successSoFar,
               !.redirectTimer = TRUE,
               !.isSubmitting = FALSE]

\* the response to POST /confessions arrives
CreateSettle(resp) ==
    /\ submit.pc = "creating"
    /\ LET r == fetchApi(resp) IN
       IF ~r.ok
         THEN /\ formUI' = [formUI EXCEPT
                    !.error = ErrMessage(r.message,
                                         "Failed to submit confession. Please try again."),
                    !.isSubmitting = FALSE]
              /\ submit' = IdleSubmit
              /\ sent' = NoRequest
         ELSE IF sharesOnSubmit(submit, r.data)
           THEN /\ submit' = [submit EXCEPT !.pc = "sharing", !.confession = r.data]
                /\ sent' = Request("SubmitForm",
                                   "POST /api/confessions/{id}/post-to-social", r.data)
                /\ UNCHANGED formUI
           ELSE /\ formUI' = submitFinished(formUI, submit, r.data, formUI.successData)
                /\ submit' = IdleSubmit
                /\ sent' = NoRequest
    /\ UNCHANGED <<widget, form, legacy, list, listPending, shareInFlight, requests>>
    /\ ContextIdle /\ PagesIdle

\* how the inner try block of handleSubmit ends for a response to its fetch of
\* post-to-social: with socialData, by catching an error, or (non-2xx) with nothing
postToSocialOnSubmit(resp) ==
    IF resp.kind = "netfail" THEN Rejected(MsgFailedToFetch)
    ELSE IF ~ResponseOk(resp) THEN Rejected(<< >>)
    ELSE IF resp.body \in {EmptyBody, Garbage} THEN Rejected(MsgSyntaxError)
    ELSE Resolved(resp.body)

\* the response to the post-to-social request of handleSubmit arrives
SubmitShareSettle(resp) ==
    /\ submit.pc = "sharing"
    /\ LET shared == postToSocialOnSubmit(resp).ok
           soFar == IF shared THEN Success(submit.confession, resp.body)
                              ELSE formUI.successData
       IN formUI' = submitFinished(formUI, submit, submit.confession, soFar)
    /\ submit' = IdleSubmit
    /\ sent' = NoRequest
    /\ UNCHANGED <<widget, form, legacy, list, listPending, shareInFlight, requests>>
    /\ settled' = Settled("SubmitForm.postToSocial",
                          "POST /api/confessions/{id}/post-to-social", << >>, resp,
                          postToSocialOnSubmit(resp))
    /\ UNCHANGED authVars /\ UNCHANGED <<clientVars, sideVars>>
    /\ PagesIdle

\* the 3 s timer of handleSubmit fires: router.push('/')
RedirectHome ==
    /\ widget = "SubmitForm"
    /\ formUI.redirectTimer
    /\ formUI' = [formUI EXCEPT !.redirectTimer = FALSE]
    /\ navEvents' = << Push("SubmitForm", "/") >>
    /\ pendingNav' = "/"
    /\ sent' = NoRequest
    /\ UNCHANGED <<route, dashLoading, dashInFlight>>
    /\ UNCHANGED <<widget, form, submit, legacy, list, listPending, shareInFlight, requests>>
    /\ ContextIdle

\* ------------------------------------------------ SubmitForm (fetch, earlier)
LegacySetContent(c) ==
    /\ widget = "LegacySubmitForm"
    /\ c # legacy.content
    /\ legacy' = [legacy EXCEPT !.content = c]
    /\ sent' = NoRequest
    /\ UNCHANGED <<widget, form, formUI, submit, list, listPending, shareInFlight, requests>>
    /\ ContextIdle /\ PagesIdle

\* submit(), reachable while its button is enabled
LegacySubmit ==
    /\ widget = "LegacySubmitForm"
    /\ ~legacy.loading /\ trim(legacy.content) # << >>
    /\ requests < MaxRequests
    /\ legacy' = [legacy EXCEPT !.loading = TRUE, !.error = NoError, !.result = null]
    /\ sent' = Request("LegacySubmitForm", "POST /confessions", null)
    /\ requests' = requests + 1
    /\ UNCHANGED <<widget, form, formUI, submit, list, listPending, shareInFlight>>
    /\ ContextIdle /\ PagesIdle

LegacySubmitSettle(resp) ==
    /\ legacy.loading
    /\ legacy' =
         IF resp.kind = "netfail"
           THEN [legacy EXCEPT !.error = ErrMessage(MsgFailedToFetch, "Submit failed"),
                               !.loading = FALSE]
         ELSE IF ~ResponseOk(resp)
           THEN [legacy EXCEPT !.error = ErrStatus("Failed: ", resp.status),
                               !.loading = FALSE]
         ELSE IF resp.body \in {EmptyBody, Garbage}
           THEN [legacy EXCEPT !.error = ErrMessage(MsgSyntaxError, "Submit failed"),
                               !.loading = FALSE]
         ELSE [legacy EXCEPT !.result = resp.body, !.loading = FALSE]
    /\ sent' = NoRequest
    /\ UNCHANGED <<widget, form, formUI, submit, list, listPending, shareInFlight, requests>>
    /\ ContextIdle /\ PagesIdle

\* publish(platforms), reachable while a publish button is rendered and enabled
LegacyPublish ==
    /\ widget = "LegacySubmitForm"
    /\ publishEnabled(legacy)
    /\ requests < MaxRequests
    /\ legacy' = [legacy EXCEPT !.publishLoading = TRUE, !.error = NoError,
                                !.publishJob = FALSE]
    /\ sent' = Request("LegacySubmitForm", "POST /publish/{id}", legacy.result)
    /\ requests' = requests + 1
    /\ UNCHANGED <<widget, form, formUI, submit, list, listPending, shareInFlight>>
    /\ ContextIdle /\ PagesIdle

LegacyPublishSettle(resp) ==
    /\ legacy.publishLoading
    /\ legacy' =
         IF resp.kind = "netfail"
           THEN [legacy EXCEPT !.error = ErrMessage(MsgFailedToFetch, "Publish failed"),
                               !.publishLoading = FALSE]
         ELSE IF ~ResponseOk(resp)
           THEN [legacy EXCEPT !.error = ErrStatus("Publish failed: ", resp.status),
                               !.publishLoading = FALSE]
         ELSE IF resp.body \in {EmptyBody, Garbage}
           THEN [legacy EXCEPT !.error = ErrMessage(MsgSyntaxError, "Publish failed"),
                               !.publishLoading = FALSE]
         ELSE [legacy EXCEPT !.publishJob = TRUE, !.publishLoading = FALSE]
    /\ sent' = NoRequest
    /\ UNCHANGED <<widget, form, formUI, submit, list, listPending, shareInFlight, requests>>
    /\ ContextIdle /\ PagesIdle

\* --------------------------------------------------------------- MyConfessions
\* Try Again, Previous, Next or a numbered page button is clicked
ListClick ==
    /\ widget = "MyConfessions"
    /\ requests < MaxRequests
    /\ \/ /\ ListView(state, list) = "error"
          /\ loadConfessions(list.currentPage)
       \/ /\ ListView(state, list) = "list" /\ list.confessions.pages > 1
          /\ \/ PreviousEnabled(list.confessions) /\ loadConfessions(list.currentPage - 1)
             \/ NextEnabled(list.confessions) /\ loadConfessions(list.currentPage + 1)
             \/ \E n \in PageButtons(list.confessions) : loadConfessions(n)
    /\ requests' = requests + 1
    /\ UNCHANGED <<widget, form, formUI, submit, legacy, shareInFlight>>
    /\ ContextIdle /\ PagesIdle

\* the response to a loadConfessions(page) call arrives
ListSettle(page, resp) ==
    /\ page \in listPending
    /\ listPending' = listPending \ {page}
    /\ LET r == fetchApi(resp) IN
       list' = IF r.ok
                 THEN [list EXCEPT !.confessions = ParseEnvelope(r.data),
                                   !.currentPage = page,
                                   !.loading = FALSE]
                 ELSE [list EXCEPT !.error = ErrMessage(r.message, "Failed to load confessions"),
                                   !.loading = FALSE]
    /\ sent' = NoRequest
    /\ UNCHANGED <<widget, form, formUI, submit, legacy, shareInFlight, requests>>
    /\ ContextIdle /\ PagesIdle

\* Share to Social Media / Cancel
ToggleSocialOptions ==
    /\ widget = "MyConfessions"
    /\ \E i \in 1..Len(list.confessions.items) :
          /\ shareRendered(state, list, i)
          /\ list' = [list EXCEPT !.showSocialOptions =
                        IF list.showSocialOptions = list.confessions.items[i].id
                          THEN 0 ELSE list.confessions.items[i].id]
    /\ sent' = NoRequest
    /\ UNCHANGED <<widget, form, formUI, submit, legacy, listPending, shareInFlight, requests>>
    /\ ContextIdle /\ PagesIdle

\* a platform button of the share panel: handleSocialShare up to its await
HandleSocialShare ==
    /\ widget = "MyConfessions"
    /\ requests < MaxRequests
    /\ \E i \in 1..Len(list.confessions.items) :
          /\ shareRendered(state, list, i)
          /\ list.showSocialOptions = list.confessions.items[i].id
          /\ sent' = Request("MyConfessions", "POST /confessions/{id}/post-to-social",
                             list.confessions.items[i].status)
    /\ shareInFlight' = shareInFlight + 1
    /\ requests' = requests + 1
    /\ UNCHANGED <<widget, form, formUI, submit, legacy, list, listPending>>
    /\ ContextIdle /\ PagesIdle

HandleSocialShareSettle(resp) ==
    /\ shareInFlight > 0
    /\ shareInFlight' = shareInFlight - 1
    /\ list' = IF fetchApi(resp).ok THEN [list EXCEPT !.showSocialOptions = 0] ELSE list
    /\ sent' = NoRequest
    /\ UNCHANGED <<widget, form, formUI, submit, legacy, listPending, requests>>
    /\ ContextIdle /\ PagesIdle

\* Generate Image: confessionsApi.generateImage, whose promise nobody awaits
GenerateImage ==
    /\ widget = "MyConfessions"
    /\ requests < MaxRequests
    /\ \E i \in 1..Len(list.confessions.items) :
          /\ shareRendered(state, list, i)
          /\ list.showSocialOptions # list.confessions.items[i].id
          /\ sent' = Request("MyConfessions", "POST /confessions/{id}/generate-image",
                             list.confessions.items[i].status)
    /\ requests' = requests + 1
    /\ UNCHANGED <<widget, form, formUI, submit, legacy, list, listPending, shareInFlight>>
    /\ ContextIdle /\ PagesIdle

Widgets == {"none", "SubmitForm", "LegacySubmitForm", "MyConfessions"}

\* ------------------------------------------- the client module, called directly
ClientIdle ==
    /\ settled' = NoneSettled
    /\ UNCHANGED <<state, loadPC, signInPC, signUpPC, signOutPC, apiPC, reqAuth,
                   tokenResp, calls>>
    /\ PagesIdle
    /\ sent' = NoRequest /\ UNCHANGED widgetState
    /\ UNCHANGED sideVars

StoreGet ==
    /\ Len(ops) < MaxOps
    /\ ops' = Append(ops, Op("getToken", null, token, getToken(token), token))
    /\ UNCHANGED <<token, probe>>
    /\ ClientIdle

StoreSet(t) ==
    /\ Len(ops) < MaxOps
    /\ token' = setToken(token, t)
    /\ ops' = Append(ops, Op("setToken", t, token, null, setToken(token, t)))
    /\ UNCHANGED probe
    /\ ClientIdle

StoreRemove ==
    /\ Len(ops) < MaxOps
    /\ token' = removeToken(token)
    /\ ops' = Append(ops, Op("removeToken", null, token, null, removeToken(token)))
    /\ UNCHANGED probe
    /\ ClientIdle

\* options.headers a caller may pass
CallerHeaders == {NoHeaders, Header("Content-Type", <<"text/plain">>),
                  Header("Authorization", <<"Basic", "creds">>)}

\* fetchApi up to its call of fetch
BuildRequest(callerHeaders) ==
    /\ probe' = Probe("request", token, callerHeaders, BuildHeaders(token, callerHeaders),
                      NoResp, Resolved(null))
    /\ probe' # probe
    /\ UNCHANGED <<token, ops>>
    /\ ClientIdle

\* fetchApi from the arrival of the response
Receive(resp) ==
    /\ probe' = Probe("response", token, NoHeaders, NoHeaders, resp, fetchApi(resp))
    /\ probe' # probe
    /\ UNCHANGED <<token, ops>>
    /\ ClientIdle

\* an error response whose body is not JSON has no detail
ClientResponses ==
    Responses(Users \cup {EmptyBody, Garbage})
    \cup [kind : {"http"}, status : ErrStatuses, detail : {NoDetail}, body : {Garbage}]

JsonBodies == {EmptyBody, Garbage}

\* the Auth Context and the gateway client, seen from an unguarded page
Next ==
    \/ Mount
    \/ \E resp \in Responses(Users \cup JsonBodies) : LoadSettle(resp)
    \/ SignInStart
    \/ \E resp \in Responses(Tokens \cup JsonBodies) : SignInTokenSettle(resp)
    \/ \E resp \in Responses(Users \cup JsonBodies) : SignInMeSettle(resp)
    \/ SignUpStart
    \/ \E resp \in Responses(Users \cup JsonBodies) : SignUpSettle(resp)
    \/ SignOutStart
    \/ \E resp \in Responses(JsonBodies) : SignOutSettle(resp)
    \/ \E ep \in Endpoints : ApiStart(ep)
    \/ \E resp \in Responses(Users \cup JsonBodies) : ApiSettle(resp)

Spec == Init /\ [][Next]_vars

\* the Auth Context under the guarded pages
NextPages ==
    \/ Mount
    \/ \E resp \in Responses(Users \cup JsonBodies) : LoadSettle(resp)
    \/ SignInStart
    \/ \E resp \in Responses(Tokens \cup JsonBodies) : SignInTokenSettle(resp)
    \/ \E resp \in Responses(Users \cup JsonBodies) : SignInMeSettle(resp)
    \/ SignOutStart
    \/ \E resp \in Responses(JsonBodies) : SignOutSettle(resp)
    \/ \E r \in Routes : NavigateTo(r)
    \/ CompleteNavigation
    \/ DashSettle

SpecPages == Init /\ [][NextPages]_vars

\* the two submit forms, which create confessions and may enqueue publish jobs
NextSubmit ==
    \/ \E w \in {"none", "SubmitForm", "LegacySubmitForm"}, u \in BOOLEAN : OpenWidget(w, u)
    \/ HandleInputChange
    \/ HandleSocialMediaChange
    \/ HandleSubmit
    \/ \E resp \in Responses(Statuses \cup JsonBodies) : CreateSettle(resp)
    \/ \E resp \in Responses({"job"} \cup JsonBodies) : SubmitShareSettle(resp)
    \/ RedirectHome
    \/ \E c \in Contents : LegacySetContent(c)
    \/ LegacySubmit
    \/ \E resp \in Responses(Statuses \cup JsonBodies) : LegacySubmitSettle(resp)
    \/ LegacyPublish
    \/ \E resp \in Responses({"job"} \cup JsonBodies) : LegacyPublishSettle(resp)

SpecSubmit == Init /\ [][NextSubmit]_vars

\* the confession list on the home page, under the Auth Context's initial load
NextList ==
    \/ Mount
    \/ \E resp \in Responses(Users \cup JsonBodies) : LoadSettle(resp)
    \/ \E w \in {"none", "MyConfessions"} : OpenWidget(w, FALSE)
    \/ ListClick
    \/ \E page \in listPending, resp \in Responses(Envelopes \cup JsonBodies) :
          ListSettle(page, resp)
    \/ ToggleSocialOptions
    \/ HandleSocialShare
    \/ \E resp \in Responses({"job"} \cup JsonBodies) : HandleSocialShareSettle(resp)
    \/ GenerateImage

SpecList == Init /\ [][NextList]_vars

\* the confession list on the home page while the Auth Context changes under it:
\* a sign-in overlapping the initial load; each request fails or succeeds
PlainResponses(bodies) ==
    {NetFail} \cup [kind : {"http"}, status : {200}, detail : {NoDetail}, body : bodies]

NextOverlap ==
    \/ Mount
    \/ \E resp \in PlainResponses(Users) : LoadSettle(resp)
    \/ SignInStart
    \/ \E resp \in PlainResponses(Tokens) : SignInTokenSettle(resp)
    \/ \E resp \in PlainResponses(Users) : SignInMeSettle(resp)
    \/ \E w \in {"none", "MyConfessions"} : OpenWidget(w, FALSE)
    \/ ListClick
    \/ \E page \in listPending, resp \in PlainResponses(Envelopes) : ListSettle(page, resp)

SpecOverlap == Init /\ [][NextOverlap]_vars

\* tokenManager and fetchApi on their own
NextClient ==
    \/ StoreGet
    \/ \E t \in Tokens : StoreSet(t)
    \/ StoreRemove
    \/ \E h \in CallerHeaders : BuildRequest(h)
    \/ \E resp \in ClientResponses : Receive(resp)

SpecClient == InitClient /\ [][NextClient]_vars

\* ------------------------------------------------------ a run of deploy.sh
AppIdle ==
    /\ settled' = NoneSettled
    /\ UNCHANGED authVars
    /\ PagesIdle
    /\ sent' = NoRequest /\ UNCHANGED widgetState
    /\ UNCHANGED clientVars

\* ./deploy.sh $1 in an environment: up to the call of main
DeployStart(mode, tools, keys) ==
    /\ deploy.status = "idle"
    /\ deploy' = [mode |-> mode, tools |-> tools, keys |-> keys, done |-> << >>,
                  status |-> IF ShowsUsage(mode) THEN "exit 0" ELSE "running"]
    /\ UNCHANGED <<stub, mw>>
    /\ AppIdle

\* the next function main calls: it returns, or the script exits 1 inside it
DeployStep(reply, commandsOk) ==
    /\ deploy.status = "running"
    /\ LET step == Plan(deploy.mode)[Len(deploy.done) + 1]
           done == Append(deploy.done, step)
       IN deploy' =
            IF StepReturns(step, deploy.tools, deploy.keys, reply, commandsOk)
              THEN [deploy EXCEPT !.done = done,
                                  !.status = IF Len(done) = Len(Plan(deploy.mode))
                                               THEN "exit 0" ELSE "running"]
              ELSE [deploy EXCEPT !.status = "exit 1"]
    /\ UNCHANGED <<stub, mw>>
    /\ AppIdle

NextDeploy ==
    \/ \E mode \in {"", "--infrastructure-only", "--images-only", "--help", "-h",
                     "--verbose"},
          tools \in SUBSET DeployTools, keys \in SUBSET CredentialVars :
          DeployStart(mode, tools, keys)
    \/ \E reply \in {"y", "Y", "n", ""}, commandsOk \in BOOLEAN : DeployStep(reply, commandsOk)

SpecDeploy == Init /\ [][NextDeploy]_vars

\* ------------------------------------------ the storage-only AuthProvider
\* useEffect(() => { ... }, []): the stored record, if any, becomes the user
StubMount ==
    /\ ~stub.mounted
    /\ stub' = [stub EXCEPT !.mounted = TRUE,
                            !.user = IF stub.storage # NoItem
                                       THEN JSONparse(stub.storage) ELSE stub.user]
    /\ UNCHANGED <<deploy, mw>>
    /\ AppIdle

StubCalls(op, email, r, target) ==
    /\ stub.mounted
    /\ Len(stub.calls) < MaxStubCalls
    /\ stub' = [stub EXCEPT !.storage = r.storage, !.user = r.user, !.route = target,
                            !.calls = Append(@, [op |-> op, email |-> email,
                                                 before |-> stub.storage,
                                                 after |-> r.storage, user |-> r.user])]
    /\ UNCHANGED <<deploy, mw>>
    /\ AppIdle

\* SignInPage.handleSubmit: await signIn(email, password); router.push("/")
StubSignIn(email) == StubCalls("signIn", email, stubSignIn(stub.storage, email), "/")
StubSignUp(email, asAdmin) ==
    LET u == [email |-> email, role |-> IF asAdmin THEN "admin" ELSE "user"]
    IN StubCalls("signUp", email, [storage |-> JSONstringify(u), user |-> u], stub.route)
StubSignOut ==
    StubCalls("signOut", "", [storage |-> NoItem, user |-> NoStubUser], stub.route)

NextStub ==
    \/ StubMount
    \/ \E email \in Emails : StubSignIn(email)
    \/ \E email \in Emails, asAdmin \in BOOLEAN : StubSignUp(email, asAdmin)
    \/ StubSignOut

SpecStub == InitStub /\ [][NextStub]_vars

\* ------------------------------------------------ requests and the middleware
\* the browser requests a path; logging in or out between requests changes the cookie
MwRequest(pathname, cookie) ==
    /\ Len(mw) < MaxHops
    /\ mw' = Append(mw, Exchange("navigate", pathname, cookie))
    /\ UNCHANGED <<deploy, stub>>
    /\ AppIdle

\* the browser follows the redirect it was answered with, sending the same cookie
MwFollow ==
    /\ Len(mw) < MaxHops
    /\ mw # << >>
    /\ mw[Len(mw)].response.kind = "redirect"
    /\ mw' = Append(mw, Exchange("redirect", mw[Len(mw)].response.location,
                                 mw[Len(mw)].cookie))
    /\ UNCHANGED <<deploy, stub>>
    /\ AppIdle

NextMiddleware ==
    \/ \E pathname \in Paths, cookie \in {null, "tokA"} : MwRequest(pathname, cookie)
    \/ MwFollow

SpecMiddleware == Init /\ [][NextMiddleware]_vars

\* ===================================================================== claims
GuardNames == {"useRequireAuth", "AdminDashboard"}
Anonymous == [user |-> null, isAuthenticated |-> FALSE, isLoading |-> FALSE]

\* C1: once authApi.signOut has returned the stored token is absent, whatever the
\* POST /auth/logout request did (success, non-2xx, network failure), and its
\* promise resolves: a logout failure is never rethrown.
Thm_C1 ==
    settled.op = "signOut" => token = null /\ settled.ok

W_C1 ==
    /\ settled.op = "signOut"
    /\ settled.tokenBefore # null
    /\ ~ResponseOk(settled.resp)
    /\ token = null

\* C2: a 401 response to a request fetchApi sent with the stored token leaves the
\* token absent and isAuthenticated false.
Cex_C2 ==
    ( /\ settled.op \in {"loadUser", "signIn", "confessionsApi"}
      /\ settled.endpoint # "/auth/token"
      /\ settled.auth # << >>
      /\ settled.resp.status = 401 )
    => token = null /\ ~state.isAuthenticated

\* C3: no route guard calls router.push in a state in which isLoading is true.
Cex_C3 ==
    \A i \in 1..Len(navEvents) : navEvents[i].by \in GuardNames => ~state.isLoading

\* C4: the context goes from anonymous (not authenticated, not loading) to
\* authenticated only in the step in which a signIn call succeeds.
Cex_C4 ==
    [][ (~state.isAuthenticated /\ ~state.isLoading /\ state'.isAuthenticated)
        => (settled'.op = "signIn" /\ settled'.ok) ]_vars

Thm_C6 ==
    settled.op = "signOut" =>
        /\ state = Anonymous
        /\ \E i \in 1..Len(navEvents) :
              navEvents[i] = Push("AuthProvider.signOut", "/auth/sign-in")
        /\ pendingNav = "/auth/sign-in"

W_C6 ==
    /\ settled.op = "signOut"
    /\ settled.resp.kind = "netfail"
    /\ settled.tokenBefore # null
    /\ state = Anonymous
    /\ pendingNav = "/auth/sign-in"

\* C7: every social-publish request the client issues (post-to-social from the
\* confession list or from the submit form, /publish from the earlier form) is for
\* a confession whose status is approved.
PublishEndpoints == {"POST /confessions/{id}/post-to-social",
                     "POST /api/confessions/{id}/post-to-social",
                     "POST /publish/{id}"}
Cex_C7 ==
    sent.endpoint \in PublishEndpoints => sent.status = "approved"

\* C8: isLoading is true from construction until the initial current-user fetch
\* settles, and the settling step leaves {user, true, false} when a user was
\* returned and {null, false, false} otherwise.
Cex_C8 ==
    /\ loadPC \in {"init", "pending"} => state.isLoading
    /\ settled.op = "loadUser" =>
          state = IF fetchApi(settled.resp).ok /\ fetchApi(settled.resp).data # null
                    THEN [user |-> fetchApi(settled.resp).data,
                          isAuthenticated |-> TRUE, isLoading |-> FALSE]
                    ELSE Anonymous

\* C9: a guarded page renders the loading placeholder when isLoading is true, the
\* protected content when the state is settled, authenticated with a user (and,
\* on the jobs page, a superuser), and the access-denied view in every other case.
Authorized(r, st) ==
    /\ ~st.isLoading
    /\ st.isAuthenticated
    /\ st.user # null
    /\ r = "/jobs" => is_superuser(st.user)

Cex_C9 ==
    route \in GuardedRoutes =>
        View(route, state, dashLoading) =
            IF state.isLoading THEN "placeholder"
            ELSE IF Authorized(route, state) THEN "content"
            ELSE "denied"

\* C10: the /users/me request of authApi.signIn is issued only after a successful
\* token response, and carries Authorization: Bearer <the token just issued>.
Thm_C10 ==
    signInPC = "me" =>
        /\ tokenResp.kind = "http"
        /\ ResponseOk(tokenResp)
        /\ tokenResp.body \in Tokens
        /\ reqAuth.signIn = <<"Bearer", tokenResp.body>>

W_C10 ==
    /\ signInPC = "me"
    /\ reqAuth.loadUser = <<"Bearer", "tokA">>
    /\ tokenResp.body = "tokB"
    /\ reqAuth.signIn = <<"Bearer", "tokB">>

\* C11: AuthProvider.signIn first sets isLoading; when authApi.signIn returns a
\* user it leaves {user: that user, isAuthenticated: true, isLoading: false} and
\* calls router.push('/'); when authApi.signIn throws it only sets isLoading back
\* to false (user and isAuthenticated keep their values), does not navigate, and
\* rejects with the error.
Thm_C11 ==
    [][ /\ (signInPC = "idle" /\ signInPC' = "token")
           => state' = [state EXCEPT !.isLoading = TRUE]
        /\ (signInPC # "idle" /\ settled'.op = "signIn" /\ settled'.ok)
           => /\ state' = [user |-> fetchApi(settled'.resp).data,
                           isAuthenticated |-> TRUE, isLoading |-> FALSE]
              /\ navEvents' = << Push("AuthProvider.signIn", "/") >>
              /\ pendingNav' = "/"
        /\ (signInPC # "idle" /\ settled'.op = "signIn" /\ ~settled'.ok)
           => /\ state' = [state EXCEPT !.isLoading = FALSE]
              /\ navEvents' = << >>
              /\ settled'.message # << >> ]_vars

W_C11 ==
    /\ settled.op = "signIn"
    /\ ~settled.ok
    /\ settled.message = MsgSomethingWentWrong
    /\ state = [user |-> "member", isAuthenticated |-> TRUE, isLoading |-> FALSE]

\* C12: no step of AuthProvider.signUp changes user, isAuthenticated or the stored
\* token; when the registration succeeds it calls router.push('/auth/sign-in'),
\* and when it fails it rejects with the error and does not navigate.
Thm_C12 ==
    [][ /\ (signUpPC = "idle" /\ signUpPC' = "pending")
           => /\ state'.user = state.user
              /\ state'.isAuthenticated = state.isAuthenticated
              /\ token' = token
        /\ (signUpPC = "pending" /\ settled'.op = "signUp")
           => /\ state'.user = state.user
              /\ state'.isAuthenticated = state.isAuthenticated
              /\ token' = token
              /\ settled'.ok = fetchApi(settled'.resp).ok
              /\ IF settled'.ok
                   THEN /\ navEvents' = << Push("AuthProvider.signUp", "/auth/sign-in") >>
                        /\ pendingNav' = "/auth/sign-in"
                   ELSE /\ navEvents' = << >>
                        /\ pendingNav' = pendingNav
                        /\ settled'.message # << >> ]_vars

W_C12 ==
    /\ settled.op = "signUp"
    /\ settled.ok
    /\ loadPC = "done"
    /\ state = Anonymous
    /\ token = null
    /\ pendingNav = "/auth/sign-in"

\* C13: whenever the request of a gateway operation other than signOut fails
\* (network failure, non-2xx status, unparsable body), the operation's promise
\* rejects.
RequestFailed(resp) ==
    resp.kind = "netfail" \/ ~ResponseOk(resp) \/ resp.body = Garbage
Cex_C13 ==
    (settled.op \notin {"none", "signOut"} /\ RequestFailed(settled.resp))
    => ~settled.ok

\* C14: the headers fetchApi builds carry Authorization: Bearer <token> exactly
\* when a token is stored at the time it is called (without one, fetchApi adds no
\* Authorization header to what the caller passed), and Content-Type is
\* application/json unless options.headers gives another.
Thm_C14 ==
    probe.step = "request" =>
        /\ probe.store \in Tokens =>
              /\ "Authorization" \in DOMAIN probe.headers
              /\ probe.headers["Authorization"] = <<"Bearer", probe.store>>
        /\ probe.store \notin Tokens =>
              /\ "Authorization" \in DOMAIN probe.headers
                    <=> "Authorization" \in DOMAIN probe.caller
              /\ "Authorization" \in DOMAIN probe.headers
                    => probe.headers["Authorization"] = probe.caller["Authorization"]
        /\ probe.headers["Content-Type"] =
              IF "Content-Type" \in DOMAIN probe.caller
                THEN probe.caller["Content-Type"] ELSE ContentTypeJson

W_C14 ==
    /\ probe.step = "request"
    /\ probe.caller = NoHeaders
    /\ probe.store = null
    /\ DOMAIN probe.headers = {"Content-Type"}
    /\ Len(ops) = 2
    /\ ops[1].op = "setToken"
    /\ ops[2].op = "removeToken"

\* C15: on a non-2xx status fetchApi rejects with the body's detail when it has
\* one and with 'Something went wrong' otherwise (also when the error body is not
\* JSON); on a 2xx status it resolves to null for an empty body and to the parsed
\* value for a JSON body.
Thm_C15 ==
    (probe.step = "response" /\ probe.resp.kind = "http") =>
        IF ~ResponseOk(probe.resp)
          THEN /\ ~probe.ok
               /\ probe.message = IF probe.resp.detail # NoDetail
                                    THEN probe.resp.detail
                                    ELSE MsgSomethingWentWrong
        ELSE IF probe.resp.body = EmptyBody THEN probe.ok /\ probe.data = null
        ELSE IF probe.resp.body # Garbage THEN probe.ok /\ probe.data = probe.resp.body
        ELSE TRUE

W_C15 ==
    /\ probe.step = "response"
    /\ probe.resp.status = 500
    /\ probe.resp.body = Garbage
    /\ ~probe.ok
    /\ probe.message = MsgSomethingWentWrong

\* C16: handleSubmit called with empty or whitespace-only content sets the error
\* 'Please enter your confession' and issues no request; no POST /confessions
\* leaves either form with such content, and the form's post-to-social request
\* is only ever issued after a create request has succeeded.
Thm_C16 ==
    [][ /\ ( /\ widget = "SubmitForm" /\ widget' = widget /\ form' = form
             /\ submit.pc = "idle" /\ ~formUI.isSubmitting /\ ~formUI.successData.present
             /\ trim(form.content) = << >>
             /\ formUI' # formUI )
           => /\ formUI'.error = ErrText("Please enter your confession")
              /\ sent' = NoRequest
              /\ requests' = requests
              /\ submit' = submit
        /\ (sent'.via = "SubmitForm" /\ sent'.endpoint = "POST /confessions")
           => trim(form.content) # << >>
        /\ (sent'.via = "LegacySubmitForm" /\ sent'.endpoint = "POST /confessions")
           => trim(legacy.content) # << >>
        /\ (sent'.endpoint = "POST /api/confessions/{id}/post-to-social")
           => submit.pc \in {"creating", "sharing"} ]_vars

W_C16 ==
    /\ widget = "SubmitForm"
    /\ form.content = <<" ">>
    /\ form.gender = "female"
    /\ form.age = <<"2", "1">>
    /\ formUI.error = ErrText("Please enter your confession")
    /\ requests = 0

\* C17: once the provider has mounted, isLoading becomes false when the
\* current-user request settles and not before: the settling step leaves it
\* false, and while the request is outstanding no step turns it from true to
\* false.
Cex_C17 ==
    [][ /\ (loadPC = "pending" /\ loadPC' = "done") => ~state'.isLoading
        /\ (loadPC = "pending" /\ loadPC' = "pending" /\ state.isLoading)
           => state'.isLoading ]_vars

\* C18: a request that failed is not issued again by the client, and its failure
\* is shown to the user; here for the post-to-social request of the submit form.
Cex_C18 ==
    (settled.op = "SubmitForm.postToSocial" /\ RequestFailed(settled.resp))
    => (sent = NoRequest /\ formUI.error # NoError)

\* C19: getToken returns the stored token, null when none is stored and null when
\* there is no window (it never fails with a ReferenceError); without a window
\* setToken and removeToken leave everything as it was.
Thm_C19 ==
    \A i \in 1..Len(ops) :
        /\ ops[i].op = "getToken" =>
              ops[i].result = IF ops[i].before \in Tokens THEN ops[i].before ELSE null
        /\ ops[i].before = NoWindow => ops[i].after = NoWindow

W_C19 ==
    /\ Len(ops) = 3
    /\ ops[1].op = "setToken"
    /\ ops[2].op = "removeToken"
    /\ ops[3].op = "getToken"
    /\ ops[3].before = NoWindow
    /\ ops[3].result = null

\* C20: with a window, getToken() right after setToken(a) returns a; so after
\* setToken(a); setToken(b) it returns b.
Thm_C20 ==
    \A i \in 2..Len(ops) :
        ( /\ ops[i].op = "getToken"
          /\ ops[i - 1].op = "setToken"
          /\ ops[i - 1].before # NoWindow )
        => ops[i].result = ops[i - 1].arg

W_C20 ==
    /\ Len(ops) = 3
    /\ ops[1].op = "setToken" /\ ops[1].arg = "tokA" /\ ops[1].before = "tokB"
    /\ ops[2].op = "setToken" /\ ops[2].arg = "tokB"
    /\ ops[3].op = "getToken" /\ ops[3].result = "tokB"

\* C21: removeToken returns normally whether or not a token is stored, a
\* getToken() that follows it returns null, and a second removeToken leaves the
\* store as the first left it.
Thm_C21 ==
    \A i \in 1..Len(ops) :
        ops[i].op = "removeToken" =>
            /\ ops[i].result = null
            /\ ops[i].after \in {null, NoWindow}
            /\ i < Len(ops) =>
                  /\ ops[i + 1].op = "getToken" => ops[i + 1].result = null
                  /\ ops[i + 1].op = "removeToken" => ops[i + 1].after = ops[i].after

W_C21 ==
    /\ Len(ops) = 3
    /\ ops[1].op = "removeToken" /\ ops[1].before = "tokA"
    /\ ops[2].op = "removeToken" /\ ops[2].before = null /\ ops[2].after = null
    /\ ops[3].op = "getToken" /\ ops[3].result = null

\* C22: under a list whose envelope has pages > 1 the text shows the range
\* (page-1)*per_page + 1 to min(page*per_page, total), Previous is enabled exactly
\* when has_prev and Next exactly when has_next; for total 12, per_page 5, page 2
\* (has_prev and has_next both true) that is 6 to 10 with both buttons enabled.
Thm_C22 ==
    (ListView(state, list) = "list" /\ list.confessions.pages > 1) =>
        LET c == list.confessions
            upTo == c.page * c.per_page
        IN /\ ShownRange(c)[1] = (c.page - 1) * c.per_page + 1
           /\ ShownRange(c)[2] = (IF upTo <= c.total THEN upTo ELSE c.total)
           /\ PreviousEnabled(c) <=> c.has_prev
           /\ NextEnabled(c) <=> c.has_next
           /\ (c.total = 12 /\ c.per_page = 5 /\ c.page = 2 /\ c.has_prev /\ c.has_next)
              => (ShownRange(c) = <<6, 10>> /\ PreviousEnabled(c) /\ NextEnabled(c))

W_C22 ==
    /\ ListView(state, list) = "list"
    /\ list.confessions.total = 12
    /\ list.confessions.page = 2
    /\ list.currentPage = 2
    /\ ShownRange(list.confessions) = <<6, 10>>

\* C23: deploy.sh completes its functions in a fixed order chosen by its
\* argument: check_requirements first and setup_aws_credentials second; then
\* under --infrastructure-only only setup_terraform_backend and
\* deploy_infrastructure, under --images-only only build_and_push_images and
\* update_ecs_services, with no option all four in that order; outside
\* --images-only no image is pushed before deploy_infrastructure has completed;
\* and a run that exits 0 from main has completed all the functions of its mode.
IsPrefixOf(s, t) == Len(s) <= Len(t) /\ SubSeq(t, 1, Len(s)) = s
Thm_C23 ==
    LET d == deploy.done
        rest == SubSeq(d, 3, Len(d))
        infra == <<"setup_terraform_backend", "deploy_infrastructure">>
        images == <<"build_and_push_images", "update_ecs_services">>
    IN /\ Len(d) >= 1 => d[1] = "check_requirements"
       /\ Len(d) >= 2 => d[2] = "setup_aws_credentials"
       /\ deploy.mode = "--infrastructure-only" => IsPrefixOf(rest, infra)
       /\ deploy.mode = "--images-only" => IsPrefixOf(rest, images)
       /\ deploy.mode = "" => IsPrefixOf(rest, infra \o images)
       /\ \A i \in DOMAIN d :
             (d[i] = "build_and_push_images" /\ deploy.mode # "--images-only")
                => \E j \in 1..(i - 1) : d[j] = "deploy_infrastructure"
       /\ (deploy.status = "exit 0" /\ ~ShowsUsage(deploy.mode))
             => Len(rest) = IF deploy.mode \in {"--infrastructure-only", "--images-only"}
                              THEN 2 ELSE 4
       /\ ShowsUsage(deploy.mode) => d = << >>

W_C23 ==
    /\ deploy.mode = ""
    /\ deploy.status = "exit 0"
    /\ deploy.done = <<"check_requirements", "setup_aws_credentials",
                       "setup_terraform_backend", "deploy_infrastructure",
                       "build_and_push_images", "update_ecs_services">>

\* C24: in every state of the Auth Context isAuthenticated is true exactly when
\* user is not null.
Cex_C24 ==
    state.isAuthenticated <=> state.user # null

\* C25: when a signIn attempt fails after its token request succeeded, the token
\* issued during the attempt is not left in the store.
Cex_C25 ==
    [][ (signInPC = "me" /\ settled'.op = "signIn" /\ ~settled'.ok)
        => token' # tokenResp.body ]_vars

\* C26: isLoading is true whenever the initial load, a signIn, a signUp or a
\* signOut has a request outstanding.
Cex_C26 ==
    (loadPC = "pending" \/ signInPC # "idle" \/ signUpPC # "idle" \/ signOutPC # "idle")
    => state.isLoading

\* C27: in the confession list, once no loadConfessions call is outstanding and
\* no error is shown, currentPage is the page most recently requested.
Cex_C27 ==
    (widget = "MyConfessions" /\ listPending = {} /\ list.requested # 0
        /\ list.error = NoError)
    => list.currentPage = list.requested

\* C28: in the storage-only provider, once the mount effect has run, the user
\* is the record stored under auth:user and is null exactly when nothing is
\* stored, after every signIn, signUp and signOut; a signIn that found a record
\* stored left that record as it was and set the user to it, whatever the email.
Thm_C28 ==
    stub.mounted =>
      /\ stub.user = (IF stub.storage = NoItem THEN NoStubUser ELSE JSONparse(stub.storage))
      /\ (stub.user = NoStubUser <=> stub.storage = NoItem)
      /\ \A i \in DOMAIN stub.calls :
            LET c == stub.calls[i]
            IN (c.op = "signIn" /\ c.before # NoItem)
                  => c.after = c.before /\ c.user = JSONparse(c.before)

W_C28 ==
    /\ stub.mounted
    /\ stub.calls # << >>
    /\ LET c == stub.calls[Len(stub.calls)]
       IN /\ c.op = "signIn"
          /\ c.before # NoItem
          /\ c.email # JSONparse(c.before).email
          /\ stub.user = JSONparse(c.before)

\* C29: every request is answered as stated: a redirect to /auth/signin with
\* from = path exactly when the path is /dashboard or /profile or below one of
\* them and no access_token cookie is sent, a redirect to /dashboard exactly
\* when the path is /auth/signin or /auth/signup and the cookie is sent, and
\* otherwise it passes; and a request made by following a redirect passes.
Under(pathname, base) == pathname = base \/ StartsWith(pathname, base \o <<"/">>)
Cex_C29 ==
    \A i \in DOMAIN mw :
       LET x == mw[i]
       IN /\ x.response =
               IF (Under(x.path, PathDashboard) \/ Under(x.path, PathProfile))
                  /\ x.cookie = null
                 THEN Redirect(PathSignin, x.path)
               ELSE IF x.path \in {PathSignin, PathSignup} /\ x.cookie # null
                 THEN Redirect(PathDashboard, << >>)
               ELSE PassThrough
          /\ x.via = "redirect" => x.response = PassThrough

\* C30: when the share-on-submit request succeeds the success state of the form
\* holds the social-media response; when it fails the form still shows success,
\* for the confession alone, and no error.
Cex_C30 ==
    settled.op = "SubmitForm.postToSocial" =>
        /\ formUI.successData.present
        /\ formUI.error = NoError
        /\ formUI.successData.socialMedia = IF settled.ok THEN settled.resp.body ELSE null

====
